---- MODULE Spec2Model ----
(***************************************************************************)
(* The album archive handler of vercel-zip-api: GET ?albumId=... lists the *)
(* album's tracks, downloads each WAV, transcodes it to MP3 with ffmpeg,   *)
(* packs the MP3s into a zip, uploads the zip to the 'archives' bucket,    *)
(* signs a 15 minute URL, upserts the album_downloads row and answers.     *)
(*                                                                         *)
(* The repository holds two copies of the handler: api/generate-zip.ts and *)
(* a second file (src/unnamed/part_000) that does not check the download,  *)
(* sign and upsert errors.  Every run is served by one of the two.         *)
(*                                                                         *)
(* One action of the model is the code a run executes between two awaits:  *)
(* the return of the awaited call with its outcome, the statements that    *)
(* follow, and the issue of the next awaited call.                         *)
(***************************************************************************)
EXTENDS Integers, Sequences, FiniteSets, TLC

\* Bounds of the model.
NumRuns == 2
MaxClock == 1

\* Program constants.
AudioBitrate == 192
SignedUrlTtl == 900

Runs == 1..NumRuns
Handlers == {"generate-zip", "part_000"}

--------------------------------------------------------------------------
\* Values of the environment.

\* req.query.albumId: absent, a string (possibly empty), or an array of
\* strings when the parameter is repeated.
QueryValues ==
    { [kind |-> "undefined", str |-> ""],
      [kind |-> "string", str |-> ""],
      [kind |-> "array", str |-> "A1"],
      [kind |-> "string", str |-> "A1"],
      [kind |-> "string", str |-> "A2"],
      [kind |-> "string", str |-> "A3"] }

\* The rows of the 'tracks' table.  Album A1 has two tracks, A3 has two
\* tracks with the same track_number and title, A2 has none.  dur is the
\* duration of the track's audio, in seconds.
TracksTable ==
    { [album_id |-> "A1", id |-> "t1", title |-> "Intro", track_number |-> 1],
      [album_id |-> "A1", id |-> "t2", title |-> "Outro", track_number |-> 2],
      [album_id |-> "A3", id |-> "t3", title |-> "Intro", track_number |-> 1],
      [album_id |-> "A3", id |-> "t4", title |-> "Intro", track_number |-> 1] }

Duration(id) ==
    CASE id = "t1" -> 1
      [] id = "t2" -> 2
      [] id = "t3" -> 1
      [] OTHER -> 2

\* The bytes of the object `key` of the 'audio-files' bucket.
AudioFile(key) == [fmt |-> "wav", src |-> key, dur |-> Duration(key)]

Undefined == [undefined |-> TRUE]
NoDir == ""

\* All orders in which a query without ORDER BY may return the set S of rows.
Orderings(S) ==
    { s \in [1..Cardinality(S) -> S] :
        \A i, j \in 1..Cardinality(S) : i # j => s[i] # s[j] }

\* .from('tracks').select('id, title, track_number').eq('album_id', albumId)
SelectTracks(albumId) ==
    { [id |-> t.id, title |-> t.title, track_number |-> t.track_number] :
        t \in { u \in TracksTable : u.album_id = albumId } }

SelectResults(albumId) ==
    { [error |-> TRUE, data |-> << >>] }
    \cup { [error |-> FALSE, data |-> s] : s \in Orderings(SelectTracks(albumId)) }

\* storage.from('audio-files').download(wavPath): the blob, an error (data
\* is null), or no error and no data.
DownloadResults(id) ==
    { [error |-> FALSE, data |-> AudioFile(id)],
      [error |-> TRUE, data |-> Undefined],
      [error |-> FALSE, data |-> Undefined] }

--------------------------------------------------------------------------
\* Pure helpers of the handler.

\* A check of albumId that forgets the type: !albumId
MissingAlbumIdFalsyOnly(q) ==
    \/ q.kind = "undefined"
    \/ (q.kind = "string" /\ q.str = "")

\* !albumId || typeof albumId !== 'string'
MissingAlbumId(q) ==
    \/ q.kind = "undefined"
    \/ (q.kind = "string" /\ q.str = "")
    \/ q.kind # "string"

\* A check of the catalog result that forgets the empty list.
NoTracksErrorOnly(out) == out.error

\* error || !tracks || tracks.length === 0
NoTracks(out) == out.error \/ Len(out.data) = 0

\* generate-zip.ts: downloadError || !wavFile;  part_000: !wavFile
SkipTrack(h, out) ==
    IF h = "generate-zip"
    THEN out.error \/ out.data = Undefined
    ELSE out.data = Undefined

\* `${track.id}.wav`
WavName(track) == track.id \o ".wav"

\* `${track.track_number} - ${track.title}.mp3`
EntryName(track) == ToString(track.track_number) \o " - " \o track.title \o ".mp3"

\* `${albumId}.zip`
ZipName(albumId) == albumId \o ".zip"

\* ffmpeg(wav).audioBitrate(192).toFormat('mp3')
Transcode(bytes) ==
    [fmt |-> "mp3", kbps |-> AudioBitrate, src |-> bytes.src, dur |-> bytes.dur]

\* fs.writeFileSync / ffmpeg .save(): the file at dir/name is created or
\* overwritten.
WriteFile(fs, dir, name, data) ==
    { f \in fs : ~(f.dir = dir /\ f.name = name) }
    \cup { [dir |-> dir, name |-> name, data |-> data] }

ReadFile(fs, dir, name) == (CHOOSE f \in fs : f.dir = dir /\ f.name = name).data

\* An archive that keeps both entries of one name.
AddEntryAppends(z, name, data) == Append(z, [entryName |-> name, data |-> data])

\* zip.addLocalFile(path, '', name): an entry of that name is replaced in
\* place, a new name is appended (AdmZip's handling of an existing name, as
\* the specification of the archive builder states it).
AddEntry(z, name, data) ==
    IF \E k \in 1..Len(z) : z[k].entryName = name
    THEN [k \in 1..Len(z) |->
            IF z[k].entryName = name THEN [entryName |-> name, data |-> data] ELSE z[k]]
    ELSE Append(z, [entryName |-> name, data |-> data])

RECURSIVE DataLength(_)
DataLength(z) ==
    IF Len(z) = 0 THEN 0
    ELSE (z[1].data.dur * z[1].data.kbps) + DataLength(Tail(z))

\* zip.toBuffer() and zipBuffer.length
ToBuffer(z) == [entries |-> z, length |-> 22 + DataLength(z)]

\* An upload that stores nothing when the archive has no entry.
UploadObjectUnlessEmpty(bucket, name, buffer) ==
    IF Len(buffer.entries) = 0
    THEN bucket
    ELSE { o \in bucket : o.name # name } \cup { [name |-> name, body |-> buffer] }

\* An upload that keeps the object of that name beside the new one.
UploadObjectAppends(bucket, name, buffer) ==
    bucket \cup { [name |-> name, body |-> buffer] }

\* upload(zipName, zipBuffer, {upsert: true}): the object of that name is
\* replaced.
UploadObject(bucket, name, buffer) ==
    { o \in bucket : o.name # name } \cup { [name |-> name, body |-> buffer] }

\* An upsert that resolves no conflict on album_id: the row is added.
UpsertRowAppends(table, row) == table \cup { row }

\* upsert(row, {onConflict: 'album_id'}): the row of that album is replaced.
UpsertRow(table, row) ==
    { x \in table : x.album_id # row.album_id } \cup { row }

\* An upload whose error is not looked at.
UploadErrorIgnored(out) == FALSE

\* if (uploadError) throw uploadError
UploadFailed(out) == out = "error"

\* generate-zip.ts: if (signError || !signed?.signedUrl) throw; part_000
\* reads only data.
SignFailed(h, out) == h = "generate-zip" /\ (out.error \/ out.url = Undefined)

\* A check of the upsert with the condition inverted: if (!insertError) throw
UpsertFailedInverted(h, out) == h = "generate-zip" /\ out # "error"

\* generate-zip.ts: if (insertError) throw insertError; part_000 ignores the
\* result of the upsert.
UpsertFailed(h, out) == h = "generate-zip" /\ out = "error"

--------------------------------------------------------------------------
VARIABLES
    pc,              \* where each run is: the call it awaits
    handler,         \* the copy of the handler that serves the run
    query,           \* req.query.albumId
    tracks,          \* the rows the catalog returned
    idx,             \* the position of `track` in tracks
    tempDir,         \* the directory mkdtempSync created
    zip,             \* the entries of the AdmZip
    zipBuffer,       \* zip.toBuffer()
    signed,          \* the data of createSignedUrl
    row,             \* the row handed to upsert
    res,             \* the responses sent on res
    calls,           \* the awaited calls that returned, each with "ok"/"end" when
                     \* it brought what was asked for and "error" otherwise
    dirs,            \* the directories under os.tmpdir()
    files,           \* the files under os.tmpdir()
    archives,        \* the objects of the 'archives' bucket
    album_downloads, \* the rows of the album_downloads table
    now              \* the wall clock

locals == <<pc, handler, query, tracks, idx, tempDir, zip, zipBuffer, signed, row, res, calls>>
stores == <<dirs, files, archives, album_downloads>>
vars == <<locals, stores, now>>

DirNames == { "album-" \o ToString(n) : n \in 1..NumRuns }

\* A working directory of a fixed name, made if it is not there.
MkdirFixed(existing) == { "album-1" }

\* fs.mkdtempSync(path.join(os.tmpdir(), 'album-')): a directory of a name
\* that no directory has yet.
Mkdtemp(existing) == DirNames \ existing

NoBuffer == [entries |-> << >>, length |-> 0]
NoRow == [album_id |-> "", zip_file_path |-> "", zip_file_size |-> 0,
          generated_at |-> 0, status |-> ""]

Init ==
    /\ pc = [r \in Runs |-> "idle"]
    /\ handler = [r \in Runs |-> "generate-zip"]
    /\ query = [r \in Runs |-> [kind |-> "undefined", str |-> ""]]
    /\ tracks = [r \in Runs |-> << >>]
    /\ idx = [r \in Runs |-> 0]
    /\ tempDir = [r \in Runs |-> NoDir]
    /\ zip = [r \in Runs |-> << >>]
    /\ zipBuffer = [r \in Runs |-> NoBuffer]
    /\ signed = [r \in Runs |-> Undefined]
    /\ row = [r \in Runs |-> NoRow]
    /\ res = [r \in Runs |-> << >>]
    /\ calls = [r \in Runs |-> << >>]
    /\ dirs = {}
    /\ files = {}
    /\ archives = {}
    /\ album_downloads = {}
    /\ now = 0

albumId(r) == query[r].str

Called(r, op, key, out) ==
    calls' = [calls EXCEPT ![r] = Append(@, [op |-> op, key |-> key, out |-> out])]

\* res.status(status).json(body); the handler returns.
Respond(r, status, body) ==
    /\ res' = [res EXCEPT ![r] = Append(@, [status |-> status, body |-> body])]
    /\ pc' = [pc EXCEPT ![r] = "done"]

\* catch (err) { console.error(...); res.status(500).json(...) }
Catch(r) == Respond(r, 500, [error |-> "Failed to generate zip"])

\* A loop that is left after its first track.
AdvanceStopsAfterFirst(r, z, ts, i) ==
    /\ zip' = [zip EXCEPT ![r] = z]
    /\ IF i < Len(ts) /\ i < 1
       THEN /\ idx' = [idx EXCEPT ![r] = i + 1]
            /\ pc' = [pc EXCEPT ![r] = "download"]
            /\ UNCHANGED zipBuffer
       ELSE /\ idx' = [idx EXCEPT ![r] = i]
            /\ zipBuffer' = [zipBuffer EXCEPT ![r] = ToBuffer(z)]
            /\ pc' = [pc EXCEPT ![r] = "upload"]

\* for (const track of tracks) with i tracks of ts behind and the zip holding
\* z: the download of the next track, or after the last track zip.toBuffer()
\* and the upload.
Advance(r, z, ts, i) ==
    /\ zip' = [zip EXCEPT ![r] = z]
    /\ IF i < Len(ts)
       THEN /\ idx' = [idx EXCEPT ![r] = i + 1]
            /\ pc' = [pc EXCEPT ![r] = "download"]
            /\ UNCHANGED zipBuffer
       ELSE /\ idx' = [idx EXCEPT ![r] = i]
            /\ zipBuffer' = [zipBuffer EXCEPT ![r] = ToBuffer(z)]
            /\ pc' = [pc EXCEPT ![r] = "upload"]

\* A skip that leaves the loop (break for continue).
SkipBreaks(r) ==
    /\ zipBuffer' = [zipBuffer EXCEPT ![r] = ToBuffer(zip[r])]
    /\ pc' = [pc EXCEPT ![r] = "upload"]
    /\ UNCHANGED <<zip, idx>>

\* continue: the track is left out and the loop goes on.
Skip(r) == Advance(r, zip[r], tracks[r], idx[r])

\* zip.addLocalFile(mp3TempPath, '', name) and the end of the loop body.
AddLocalFile(r, fs, name) ==
    Advance(r, AddEntry(zip[r], name, ReadFile(fs, tempDir[r], name)), tracks[r], idx[r])

\* A request arrives: the albumId check and the catalog query.
Request(r, h, q) ==
    /\ pc[r] = "idle"
    /\ \A s \in Runs : s < r => pc[s] # "idle"
    /\ handler' = [handler EXCEPT ![r] = h]
    /\ query' = [query EXCEPT ![r] = q]
    /\ IF MissingAlbumId(q)
       THEN Respond(r, 400, [error |-> "Missing albumId"])
       ELSE /\ pc' = [pc EXCEPT ![r] = "select"]
            /\ UNCHANGED res
    /\ UNCHANGED <<tracks, idx, tempDir, zip, zipBuffer, signed, row, calls, stores, now>>

\* The catalog query returns: 404, or the working directory, the empty zip
\* and the download of the first track.
SelectReturns(r, out) ==
    /\ pc[r] = "select"
    /\ Called(r, "select", albumId(r), IF out.error THEN "error" ELSE "ok")
    /\ IF NoTracks(out)
       THEN /\ Respond(r, 404, [error |-> "No tracks found for album"])
            /\ UNCHANGED <<tracks, idx, tempDir, zip, zipBuffer, dirs>>
       ELSE /\ tracks' = [tracks EXCEPT ![r] = out.data]
            /\ \E d \in Mkdtemp(dirs) :
                 /\ dirs' = dirs \cup {d}
                 /\ tempDir' = [tempDir EXCEPT ![r] = d]
            /\ Advance(r, << >>, out.data, 0)
            /\ UNCHANGED res
    /\ UNCHANGED <<handler, query, signed, row, files, archives, album_downloads, now>>

\* The download returns: the track is skipped, or its bytes are written to
\* the working directory and ffmpeg is started.  (wavFile.arrayBuffer() reads
\* the blob held in memory.)
DownloadReturns(r, out) ==
    /\ pc[r] = "download"
    /\ LET track == tracks[r][idx[r]] IN
       /\ Called(r, "download", WavName(track),
                 IF out.error \/ out.data = Undefined THEN "error" ELSE "ok")
       /\ IF SkipTrack(handler[r], out)
          THEN /\ Skip(r)
               /\ UNCHANGED files
          ELSE /\ files' = WriteFile(files, tempDir[r], WavName(track), out.data)
               /\ pc' = [pc EXCEPT ![r] = "ffmpeg"]
               /\ UNCHANGED <<idx, zip, zipBuffer>>
    /\ UNCHANGED <<handler, query, tracks, tempDir, signed, row, res, dirs, archives, album_downloads, now>>

\* ffmpeg signals 'end': the MP3 is in the working directory and is added to
\* the zip.
FfmpegEnd(r) ==
    /\ pc[r] = "ffmpeg"
    /\ LET track == tracks[r][idx[r]]
           mp3 == Transcode(ReadFile(files, tempDir[r], WavName(track)))
           fs == WriteFile(files, tempDir[r], EntryName(track), mp3)
       IN /\ Called(r, "ffmpeg", EntryName(track), "end")
          /\ files' = fs
          /\ AddLocalFile(r, fs, EntryName(track))
    /\ UNCHANGED <<handler, query, tracks, tempDir, signed, row, res, dirs, archives, album_downloads, now>>

\* ffmpeg signals 'error': the promise rejects and the catch answers.
FfmpegError(r) ==
    /\ pc[r] = "ffmpeg"
    /\ Called(r, "ffmpeg", EntryName(tracks[r][idx[r]]), "error")
    /\ Catch(r)
    /\ UNCHANGED <<handler, query, tracks, idx, tempDir, zip, zipBuffer, signed, row, stores, now>>

\* The upload returns: the object is stored and its URL is asked for, or the
\* error is thrown.
UploadReturns(r, out) ==
    /\ pc[r] = "upload"
    /\ Called(r, "upload", ZipName(albumId(r)), out)
    /\ archives' = IF out = "ok"
                   THEN UploadObject(archives, ZipName(albumId(r)), zipBuffer[r])
                   ELSE archives
    /\ IF UploadFailed(out)
       THEN Catch(r)
       ELSE /\ pc' = [pc EXCEPT ![r] = "sign"]
            /\ UNCHANGED res
    /\ UNCHANGED <<handler, query, tracks, idx, tempDir, zip, zipBuffer, signed, row, dirs, files, album_downloads, now>>

\* createSignedUrl(zipName, 900): a URL of an object the bucket holds, an
\* error, or data without a URL.
SignResults(name) ==
    { [error |-> TRUE, url |-> Undefined], [error |-> FALSE, url |-> Undefined] }
    \cup { [error |-> FALSE, url |-> [object |-> o.name, expiresIn |-> SignedUrlTtl]] :
             o \in { x \in archives : x.name = name } }

\* The signing returns: the error is thrown (generate-zip.ts), or the row is
\* built with the current time and upserted.
SignReturns(r, out) ==
    /\ pc[r] = "sign"
    /\ Called(r, "sign", ZipName(albumId(r)),
              IF out.error \/ out.url = Undefined THEN "error" ELSE "ok")
    /\ IF SignFailed(handler[r], out)
       THEN /\ Catch(r)
            /\ UNCHANGED <<signed, row, now>>
       ELSE /\ signed' = [signed EXCEPT ![r] = out.url]
            /\ \E t \in now..MaxClock :
                 /\ now' = t
                 /\ row' = [row EXCEPT ![r] =
                              [album_id |-> albumId(r),
                               zip_file_path |-> ZipName(albumId(r)),
                               zip_file_size |-> zipBuffer[r].length,
                               generated_at |-> t,
                               status |-> "ready"]]
            /\ pc' = [pc EXCEPT ![r] = "upsert"]
            /\ UNCHANGED res
    /\ UNCHANGED <<handler, query, tracks, idx, tempDir, zip, zipBuffer, stores>>

\* The upsert returns: the row is written, or the error is thrown
\* (generate-zip.ts); then the 200 with the signed URL.
UpsertReturns(r, out) ==
    /\ pc[r] = "upsert"
    /\ Called(r, "upsert", albumId(r), out)
    /\ album_downloads' = IF out = "ok"
                          THEN UpsertRow(album_downloads, row[r])
                          ELSE album_downloads
    /\ IF UpsertFailed(handler[r], out)
       THEN Catch(r)
       ELSE Respond(r, 200, [downloadUrl |-> signed[r]])
    /\ UNCHANGED <<handler, query, tracks, idx, tempDir, zip, zipBuffer, signed, row, dirs, files, archives, now>>

\* The awaited call of run r returns.
Returns(r) ==
    \/ pc[r] = "select" /\ \E out \in SelectResults(albumId(r)) : SelectReturns(r, out)
    \/ pc[r] = "download" /\ \E out \in DownloadResults(tracks[r][idx[r]].id) :
                               DownloadReturns(r, out)
    \/ FfmpegEnd(r)
    \/ FfmpegError(r)
    \/ \E out \in {"ok", "error"} : UploadReturns(r, out)
    \/ pc[r] = "sign" /\ \E out \in SignResults(ZipName(albumId(r))) : SignReturns(r, out)
    \/ \E out \in {"ok", "error"} : UpsertReturns(r, out)

\* Requests are served concurrently: a request may arrive while other runs
\* await a call.
Next ==
    \E r \in Runs :
        \/ \E h \in Handlers, q \in QueryValues : Request(r, h, q)
        \/ Returns(r)

Spec == Init /\ [][Next]_vars

\* Requests served one after the other: a request arrives only when no run
\* is in progress.
NoRunInProgress == \A s \in Runs : pc[s] \in {"idle", "done"}

NextSeq ==
    \E r \in Runs :
        \/ NoRunInProgress /\ \E h \in Handlers, q \in QueryValues : Request(r, h, q)
        \/ Returns(r)

SpecSeq == Init /\ [][NextSeq]_vars

\* Every awaited call eventually returns and the transcoder eventually emits
\* end or error: the step that resumes a run after its await is taken.
SpecFair == Spec /\ \A r \in Runs : WF_vars(Returns(r))

--------------------------------------------------------------------------
\* What the claims speak of.

Done(r) == pc[r] = "done"

\* The run sent exactly one response, with this status.
Answered(r, status) == Len(res[r]) = 1 /\ res[r][1].status = status

\* A call of the run to op returned with a failure / with what was asked.
Failed(r, op) == \E k \in 1..Len(calls[r]) : calls[r][k].op = op /\ calls[r][k].out = "error"
Succeeded(r, op) == \E k \in 1..Len(calls[r]) : calls[r][k].op = op /\ calls[r][k].out # "error"

\* The positions in tracks[r] of the tracks whose download brought the bytes,
\* and of those that were skipped.
Fetched(r) ==
    { k \in 1..Len(tracks[r]) :
        \E c \in 1..Len(calls[r]) :
            /\ calls[r][c].op = "download"
            /\ calls[r][c].key = tracks[r][k].id \o ".wav"
            /\ calls[r][c].out = "ok" }
Skipped(r) ==
    { k \in 1..Len(tracks[r]) :
        \E c \in 1..Len(calls[r]) :
            /\ calls[r][c].op = "download"
            /\ calls[r][c].key = tracks[r][k].id \o ".wav"
            /\ calls[r][c].out = "error" }

\* C1: every run that created a working directory has removed it, and the
\* files in it, when the run has ended, whatever the response.
C1_WorkingDirRemoved ==
    \A r \in Runs :
        Done(r) => /\ tempDir[r] \notin dirs
                   /\ ~ \E f \in files : f.dir = tempDir[r]

\* C2: a run in which ffmpeg signalled 'error' for a track, and in which the
\* upload, the signing and the upsert did not fail, ends with a 200.
C2_TranscodeFailureSkipped ==
    \A r \in Runs :
        ( /\ Done(r)
          /\ Failed(r, "ffmpeg")
          /\ ~ Failed(r, "upload") /\ ~ Failed(r, "sign") /\ ~ Failed(r, "upsert") )
        => Answered(r, 200)

\* The names of the tracks of the run that were not skipped.
FetchedNames(r) ==
    { ToString(tracks[r][k].track_number) \o " - " \o tracks[r][k].title \o ".mp3" :
        k \in Fetched(r) }

\* The tracks of the run that were not skipped have pairwise distinct names.
DistinctNames(r) ==
    \A j, k \in Fetched(r) :
        j # k => <<tracks[r][j].track_number, tracks[r][j].title>>
                 # <<tracks[r][k].track_number, tracks[r][k].title>>

C4_StatusAfterUpload ==
    \A r \in Runs :
        /\ (pc[r] = "upsert" \/ Succeeded(r, "upsert") \/ Failed(r, "upsert"))
           => /\ Succeeded(r, "upload")
              /\ \E o \in archives : o.name = albumId(r) \o ".zip"
        /\ Failed(r, "upload")
           => /\ pc[r] = "done"
              /\ ~ Succeeded(r, "sign") /\ ~ Failed(r, "sign")
              /\ ~ Succeeded(r, "upsert") /\ ~ Failed(r, "upsert")
              /\ \A x \in album_downloads :
                    x.album_id = albumId(r) =>
                        \E s \in Runs \ {r} : Succeeded(s, "upsert") /\ row[s] = x

\* A run wrote the status row after its upload, and a run's upload failed.
C4_Witness ==
    \E r, s \in Runs :
        /\ Done(r) /\ Succeeded(r, "upload") /\ Succeeded(r, "upsert")
        /\ row[r] \in album_downloads
        /\ Done(s) /\ Failed(s, "upload")

\* C5: a run in which the upload, the signing or the upsert failed answers
\* 500 {error: "Failed to generate zip"} and nothing else.
C5_FatalFailuresAnswer500 ==
    \A r \in Runs :
        ( Done(r) /\ (Failed(r, "upload") \/ Failed(r, "sign") \/ Failed(r, "upsert")) )
        => res[r] = << [status |-> 500, body |-> [error |-> "Failed to generate zip"]] >>

\* C6: a run that answered 200 sent a defined signed URL of "{albumId}.zip",
\* the bucket holds that object and the table holds the album's row with
\* status ready and that path.
C6_SuccessMeansReady ==
    \A r \in Runs :
        ( Done(r) /\ Answered(r, 200) )
        => /\ res[r][1].body.downloadUrl # Undefined
           /\ res[r][1].body.downloadUrl.object = albumId(r) \o ".zip"
           /\ \E o \in archives : o.name = albumId(r) \o ".zip"
           /\ \E x \in album_downloads :
                /\ x.album_id = albumId(r)
                /\ x.status = "ready"
                /\ x.zip_file_path = albumId(r) \o ".zip"

\* The rows ts in an order of ascending track_number.
Ascending(ts) == \A j, k \in 1..Len(ts) : j < k => ts[j].track_number <= ts[k].track_number

\* C7: a run in which every track was downloaded and transcoded has an
\* archive of as many entries as tracks, named after the tracks, in the
\* order of ascending track_number.  (Stated for albums whose tracks have
\* distinct names.)
C7_EntriesInTrackOrder ==
    \A r \in Runs :
        ( /\ Done(r)
          /\ Len(tracks[r]) >= 1
          /\ Fetched(r) = 1..Len(tracks[r])
          /\ DistinctNames(r)
          /\ ~ Failed(r, "ffmpeg") )
        => LET e == zipBuffer[r].entries IN
           /\ Len(e) = Len(tracks[r])
           /\ \E ts \in Orderings({ tracks[r][k] : k \in 1..Len(tracks[r]) }) :
                /\ Ascending(ts)
                /\ \A k \in 1..Len(e) :
                     e[k].entryName = ToString(ts[k].track_number) \o " - "
                                        \o ts[k].title \o ".mp3"

\* C8 (state): a run whose catalog query returned an error or no row has
\* answered 404 {error: "No tracks found for album"}, has no working
\* directory and has made no other call.
C8_NotFoundState ==
    \A r \in Runs :
        ( /\ Len(calls[r]) >= 1
          /\ calls[r][1].op = "select"
          /\ (calls[r][1].out = "error"
              \/ ~ \E t \in TracksTable : t.album_id = query[r].str) )
        => /\ Done(r)
           /\ res[r] = << [status |-> 404, body |-> [error |-> "No tracks found for album"]] >>
           /\ tempDir[r] = NoDir
           /\ Len(calls[r]) = 1
           /\ pc[r] \notin {"download", "ffmpeg", "upload", "sign", "upsert"}

\* C8 (step): the step in which such a run gets the catalog's answer leaves
\* the working directories and files, the bucket and the table as they were.
C8_NotFoundStep ==
    \A r \in Runs :
        ( /\ pc[r] = "select"
          /\ Len(calls'[r]) = 1
          /\ (calls'[r][1].out = "error"
              \/ ~ \E t \in TracksTable : t.album_id = query[r].str) )
        => UNCHANGED <<dirs, files, archives, album_downloads>>

\* C8: a catalog error or an empty album is answered 404 without side effect.
C8_NotFoundNoSideEffects == [] C8_NotFoundState /\ [][C8_NotFoundStep]_vars

\* A run was answered 404 for an empty album while the bucket and the table
\* held what another run had stored.
C8_Witness ==
    \E r, s \in Runs :
        /\ Done(r) /\ Answered(r, 404) /\ calls[r][1].out = "ok"
        /\ Done(s) /\ Answered(s, 200) /\ row[s] \in album_downloads
        /\ archives # {} /\ files # {}

\* C9 (state): a run whose albumId is absent or an array has answered 400
\* {error: "Missing albumId"}, has made no call and has no working directory.
C9_MissingState ==
    \A r \in Runs :
        ( pc[r] # "idle" /\ query[r].kind \in {"undefined", "array"} )
        => /\ Done(r)
           /\ res[r] = << [status |-> 400, body |-> [error |-> "Missing albumId"]] >>
           /\ calls[r] = << >>
           /\ tempDir[r] = NoDir

\* C9 (step): the step in which such a request arrives leaves the working
\* directories and files, the bucket and the table as they were.
C9_MissingStep ==
    \A r \in Runs :
        ( pc[r] = "idle" /\ pc'[r] # "idle" /\ query'[r].kind \in {"undefined", "array"} )
        => UNCHANGED <<dirs, files, archives, album_downloads>>

\* C9: an absent or non-string albumId is answered 400 without side effect.
C9_MissingNoSideEffects == [] C9_MissingState /\ [][C9_MissingStep]_vars

\* A request with a repeated albumId was answered 400 while the bucket and
\* the table held what another run had stored.
C9_Witness ==
    \E r, s \in Runs :
        /\ Done(r) /\ Answered(r, 400) /\ query[r].kind = "array"
        /\ Done(s) /\ Answered(s, 200) /\ row[s] \in album_downloads
        /\ archives # {} /\ files # {}

Albums == { t.album_id : t \in TracksTable }

\* C10 (state): the bucket holds at most one object "{albumId}.zip" and the
\* table at most one row of the album, whose status is ready.
C10_OneObjectOneRow ==
    \A a \in Albums :
        /\ Cardinality({ o \in archives : o.name = a \o ".zip" }) <= 1
        /\ Cardinality({ x \in album_downloads : x.album_id = a }) <= 1
        /\ \A x \in album_downloads : x.album_id = a => x.status = "ready"

\* C10 (step): the row a run writes is not older than the row of the album
\* that the table held before.
C10_NotOlder ==
    \A x \in album_downloads : \A y \in album_downloads' :
        x.album_id = y.album_id => y.generated_at >= x.generated_at

\* C10: with the runs served one after the other, every regeneration
\* replaces the album's object and row, and generated_at never goes back.
C10_RegenerationOverwrites == [] C10_OneObjectOneRow /\ [][C10_NotOlder]_vars

\* Two runs for the same album ended with a 200, the second replaced the
\* object and the row of the first with different ones.
C10_Witness ==
    \E r, s \in Runs :
        /\ r # s /\ query[r] = query[s]
        /\ Done(r) /\ Answered(r, 200) /\ Succeeded(r, "upsert")
        /\ Done(s) /\ Answered(s, 200) /\ Succeeded(s, "upsert")
        /\ row[r] # row[s] /\ zipBuffer[r] # zipBuffer[s]
        /\ row[s] \in album_downloads
        /\ \E o \in archives : o.body = zipBuffer[s]


\* The awaited call of run r returns with what was asked for.
Proceeds(r) ==
    \/ pc[r] = "select" /\ \E out \in SelectResults(albumId(r)) :
                              ~ out.error /\ SelectReturns(r, out)
    \/ pc[r] = "download" /\ \E out \in DownloadResults(tracks[r][idx[r]].id) :
                                out.data # Undefined /\ DownloadReturns(r, out)
    \/ FfmpegEnd(r)
    \/ UploadReturns(r, "ok")
    \/ pc[r] = "sign" /\ \E out \in SignResults(ZipName(albumId(r))) :
                            out.url # Undefined /\ SignReturns(r, out)
    \/ UpsertReturns(r, "ok")

\* The call of run r to op returns in this step, with success.
ReturnsOk(r, op) ==
    /\ Len(calls'[r]) = Len(calls[r]) + 1
    /\ calls'[r][Len(calls'[r])].op = op
    /\ calls'[r][Len(calls'[r])].out = "ok"

\* C11 (state): whatever the other run does, the call a run awaits can
\* return with success; an album has at most one object and one row; and
\* when two runs for one album have both ended with their row written, the
\* album's row is the row of one of them.
C11_NoExclusion ==
    /\ \A r \in Runs : pc[r] \notin {"idle", "done"} => ENABLED Proceeds(r)
    /\ \A a \in Albums :
        /\ Cardinality({ o \in archives : o.name = a \o ".zip" }) <= 1
        /\ Cardinality({ x \in album_downloads : x.album_id = a }) <= 1
    /\ \A r, s \in Runs :
        ( /\ r # s /\ query[r] = query[s]
          /\ Done(r) /\ Succeeded(r, "upsert")
          /\ Done(s) /\ Succeeded(s, "upsert") )
        => /\ Cardinality({ o \in archives : o.name = albumId(r) \o ".zip" }) = 1
           /\ Cardinality({ x \in album_downloads : x.album_id = albumId(r) }) = 1
           /\ \E x \in album_downloads : x = row[r] \/ x = row[s]
           /\ \E o \in archives : o.body = zipBuffer[r] \/ o.body = zipBuffer[s]

\* C11 (step): a successful upload leaves the run's buffer as the album's
\* only object, a successful upsert leaves the run's row as the album's only
\* row, whatever they held before, and no other step changes the bucket or
\* the table.
C11_LastWriterWins ==
    /\ \A r \in Runs :
        /\ ReturnsOk(r, "upload")
           => { o \in archives' : o.name = albumId(r) \o ".zip" }
              = { [name |-> albumId(r) \o ".zip", body |-> zipBuffer[r]] }
        /\ ReturnsOk(r, "upsert")
           => { x \in album_downloads' : x.album_id = albumId(r) } = { row[r] }
    /\ archives' # archives => \E r \in Runs : ReturnsOk(r, "upload")
    /\ album_downloads' # album_downloads => \E r \in Runs : ReturnsOk(r, "upsert")

\* C11: two runs for one album do not exclude each other and the last
\* writer wins.
C11_ConcurrentRunsRace == [] C11_NoExclusion /\ [][C11_LastWriterWins]_vars

\* Two runs for one album overlapped and both ended with a 200: the object is
\* the one of the run that uploaded last, the row the one of the other run,
\* whose upsert came last.
C11_Witness ==
    \E r, s \in Runs :
        /\ r # s /\ query[r] = query[s]
        /\ Done(r) /\ Answered(r, 200) /\ Succeeded(r, "upsert")
        /\ Done(s) /\ Answered(s, 200) /\ Succeeded(s, "upsert")
        /\ zipBuffer[r] # zipBuffer[s] /\ row[r] # row[s]
        /\ row[r] \in album_downloads
        /\ \E o \in archives : o.body = zipBuffer[s]


\* The number of calls to op among the first n calls of the run.
RECURSIVE CountCalls(_, _, _)
CountCalls(r, op, n) ==
    IF n = 0 THEN 0
    ELSE CountCalls(r, op, n - 1) + (IF calls[r][n].op = op THEN 1 ELSE 0)

\* The call at position c of the run ended the cycle of a track (a failed
\* download, or ffmpeg's 'end'), or is the catalog query before the loop.
EndsCycle(r, c) ==
    \/ calls[r][c].op = "select"
    \/ (calls[r][c].op = "download" /\ calls[r][c].out = "error")
    \/ (calls[r][c].op = "ffmpeg" /\ calls[r][c].out = "end")

\* C12: within a run the tracks are processed one after the other and every
\* call is awaited: the n-th download is that of the n-th track and is sent
\* only when the cycle before it has ended; ffmpeg runs on the track just
\* downloaded; an entry is in the zip only after ffmpeg signalled 'end' for
\* its file, which is then in the working directory; the upload is sent only
\* when all tracks have been downloaded and the last cycle has ended.
C12_SequentialAwaited ==
    \A r \in Runs :
        LET n == Len(calls[r]) IN
        /\ \A c \in 1..n :
            /\ calls[r][c].op = "download"
               => /\ c >= 2 /\ EndsCycle(r, c - 1)
                  /\ CountCalls(r, "download", c) <= Len(tracks[r])
                  /\ calls[r][c].key = tracks[r][CountCalls(r, "download", c)].id \o ".wav"
            /\ calls[r][c].op = "ffmpeg"
               => /\ c >= 2
                  /\ calls[r][c - 1].op = "download" /\ calls[r][c - 1].out = "ok"
                  /\ LET t == tracks[r][CountCalls(r, "download", c)] IN
                     calls[r][c].key = ToString(t.track_number) \o " - " \o t.title \o ".mp3"
            /\ calls[r][c].op = "upload"
               => /\ c >= 2 /\ EndsCycle(r, c - 1)
                  /\ CountCalls(r, "download", c) = Len(tracks[r])
                  /\ CountCalls(r, "upload", c) = 1
            /\ calls[r][c].op = "sign"
               => c >= 2 /\ calls[r][c - 1].op = "upload" /\ calls[r][c - 1].out = "ok"
            /\ calls[r][c].op = "upsert"
               => c >= 2 /\ calls[r][c - 1].op = "sign"
        /\ pc[r] = "download"
           => /\ n >= 1 /\ EndsCycle(r, n)
              /\ CountCalls(r, "download", n) = idx[r] - 1
              /\ idx[r] <= Len(tracks[r])
        /\ pc[r] = "ffmpeg"
           => /\ n >= 1 /\ calls[r][n].op = "download" /\ calls[r][n].out = "ok"
              /\ CountCalls(r, "download", n) = idx[r]
              /\ \E f \in files : /\ f.dir = tempDir[r]
                                  /\ f.name = tracks[r][idx[r]].id \o ".wav"
                                  /\ f.data.fmt = "wav"
        /\ pc[r] \in {"upload", "sign", "upsert"}
           => /\ CountCalls(r, "download", n) = Len(tracks[r])
              /\ zipBuffer[r].entries = zip[r]
        /\ pc[r] = "upload" => n >= 1 /\ EndsCycle(r, n)
        /\ \A k \in 1..Len(zip[r]) :
            /\ \E c \in 1..n : /\ calls[r][c].op = "ffmpeg"
                               /\ calls[r][c].out = "end"
                               /\ calls[r][c].key = zip[r][k].entryName
            /\ \E f \in files : /\ f.dir = tempDir[r]
                                /\ f.name = zip[r][k].entryName
                                /\ f.data = zip[r][k].data
        /\ Len(zip[r]) <= CountCalls(r, "ffmpeg", n)

\* A run downloaded, transcoded and packed two tracks, then uploaded.
C12_Witness ==
    \E r \in Runs :
        /\ Done(r) /\ Answered(r, 200)
        /\ Len(zipBuffer[r].entries) = 2
        /\ CountCalls(r, "ffmpeg", Len(calls[r])) = 2


\* Every track of the run was skipped.
AllSkipped(r) == Len(tracks[r]) >= 1 /\ Skipped(r) = 1..Len(tracks[r])

\* C13 (state): a run all of whose tracks were skipped goes on: it finalizes
\* an archive without entry and, unless the upload, the signing or the
\* upsert fails, ends with the ready row written and a 200 with a link.
C13_EmptyArchiveState ==
    \A r \in Runs :
        AllSkipped(r)
        => /\ pc[r] \in {"upload", "sign", "upsert", "done"}
           /\ zip[r] = << >>
           /\ zipBuffer[r].entries = << >>
           /\ zipBuffer[r].length = 22
           /\ ~ Failed(r, "ffmpeg") /\ ~ Succeeded(r, "ffmpeg")
           /\ ( Done(r) /\ ~ Failed(r, "upload") /\ ~ Failed(r, "sign")
                        /\ ~ Failed(r, "upsert") )
              => /\ Answered(r, 200)
                 /\ res[r][1].body.downloadUrl # Undefined
                 /\ res[r][1].body.downloadUrl.object = albumId(r) \o ".zip"
                 /\ Succeeded(r, "upload") /\ Succeeded(r, "upsert")
                 /\ row[r].status = "ready"
                 /\ row[r].zip_file_size = 22

\* C13 (step): the successful upload of such a run stores the empty archive
\* as "{albumId}.zip", and its successful upsert writes the ready row.
C13_EmptyArchiveStep ==
    \A r \in Runs :
        AllSkipped(r)
        => /\ ReturnsOk(r, "upload")
              => [name |-> albumId(r) \o ".zip",
                  body |-> [entries |-> << >>, length |-> 22]] \in archives'
           /\ ReturnsOk(r, "upsert")
              => \E x \in album_downloads' :
                    /\ x.album_id = albumId(r) /\ x.status = "ready"
                    /\ x.zip_file_path = albumId(r) \o ".zip"
                    /\ x.zip_file_size = 22

\* C13: when every track is skipped the run uploads an empty archive, writes
\* the ready row and answers 200.
C13_EmptyArchiveSucceeds == [] C13_EmptyArchiveState /\ [][C13_EmptyArchiveStep]_vars

\* A run skipped both tracks of its album and ended with a 200, the empty
\* archive stored and the ready row written.
C13_Witness ==
    \E r \in Runs :
        /\ AllSkipped(r) /\ Len(tracks[r]) = 2
        /\ Done(r) /\ Answered(r, 200)
        /\ row[r] \in album_downloads
        /\ \E o \in archives : o.name = albumId(r) \o ".zip" /\ o.body.entries = << >>


\* Tracks j and k of the run have the same track_number and title.
SameName(r, j, k) ==
    /\ tracks[r][j].track_number = tracks[r][k].track_number
    /\ tracks[r][j].title = tracks[r][k].title

\* C14 (state): when two tracks of the same track_number and title have both
\* been transcoded, the zip holds one entry of their name, with the MP3 of
\* the track processed later, and the run has not failed.
C14_CollisionState ==
    \A r \in Runs : \A j, k \in 1..Len(tracks[r]) :
        ( /\ j < k /\ SameName(r, j, k)
          /\ j \in Fetched(r) /\ k \in Fetched(r)
          /\ CountCalls(r, "ffmpeg", Len(calls[r])) = 2
          /\ ~ Failed(r, "ffmpeg") )
        => LET name == ToString(tracks[r][k].track_number) \o " - "
                          \o tracks[r][k].title \o ".mp3"
               named == { e \in 1..Len(zip[r]) : zip[r][e].entryName = name }
           IN /\ Cardinality(named) = 1
              /\ \A e \in named : zip[r][e].data.src = tracks[r][k].id
              /\ \A e \in named : zip[r][e].data.fmt = "mp3"
              /\ zipBuffer[r].entries = zip[r]
              /\ pc[r] \in {"upload", "sign", "upsert", "done"}
              /\ Done(r) => ( Answered(r, 200)
                              \/ Failed(r, "upload") \/ Failed(r, "sign")
                              \/ Failed(r, "upsert") )

\* C14 (step): adding the file of a track whose name the zip already holds
\* leaves the number of entries as it was and raises no error.
C14_CollisionStep ==
    \A r \in Runs :
        ( /\ pc[r] = "ffmpeg"
          /\ Len(calls'[r]) = Len(calls[r]) + 1
          /\ calls'[r][Len(calls'[r])].out = "end"
          /\ \E e \in 1..Len(zip[r]) :
                zip[r][e].entryName = calls'[r][Len(calls'[r])].key )
        => /\ Len(zip'[r]) = Len(zip[r])
           /\ pc'[r] # "done"
           /\ res'[r] = << >>

\* C14: two tracks of one name give one entry, the later track's.
C14_NameCollisionOverwrites == [] C14_CollisionState /\ [][C14_CollisionStep]_vars

\* A run packed the two tracks of album A3, which share their name, and
\* ended with a 200 and an archive of one entry.
C14_Witness ==
    \E r \in Runs :
        /\ Done(r) /\ Answered(r, 200)
        /\ Len(tracks[r]) = 2 /\ SameName(r, 1, 2)
        /\ Fetched(r) = {1, 2}
        /\ Len(zipBuffer[r].entries) = 1
        /\ zipBuffer[r].entries[1].data.src = tracks[r][2].id


\* Run r takes the step.
StepOf(r) == pc'[r] # pc[r] \/ calls'[r] # calls[r]

\* C15 (state): two runs never have the same working directory, the
\* directory of a run exists, and the files in it are the WAVs and MP3s of
\* the tracks this run downloaded.
C15_OwnDirectory ==
    /\ \A r, s \in Runs :
        (r # s /\ tempDir[r] # NoDir /\ tempDir[s] # NoDir) => tempDir[r] # tempDir[s]
    /\ \A r \in Runs : tempDir[r] # NoDir => tempDir[r] \in dirs
    /\ \A f \in files : \E r \in Runs :
        /\ f.dir = tempDir[r]
        /\ \E k \in Fetched(r) :
            /\ f.data.src = tracks[r][k].id
            /\ \/ f.name = tracks[r][k].id \o ".wav"
               \/ f.name = ToString(tracks[r][k].track_number) \o " - "
                             \o tracks[r][k].title \o ".mp3"

\* C15 (step): a step of a run creates, overwrites and removes files only in
\* the directory of this run, never in a directory that existed before the
\* run made its own, and what it adds to its zip is the file of that name in
\* its own directory.
C15_OwnFiles ==
    \A r \in Runs :
        StepOf(r)
        => /\ \A f \in (files' \ files) \cup (files \ files') : f.dir = tempDir[r]
           /\ tempDir'[r] # tempDir[r] => tempDir[r] = NoDir /\ tempDir'[r] \notin dirs
           /\ zip'[r] # zip[r]
              => \E e \in 1..Len(zip'[r]) : \E f \in files' :
                    /\ f.dir = tempDir[r]
                    /\ f.name = zip'[r][e].entryName
                    /\ f.data = zip'[r][e].data
                    /\ \A s \in Runs \ {r} : f.dir # tempDir[s]

\* C15: the working directory is exclusive to one run.
C15_ExclusiveWorkingDir == [] C15_OwnDirectory /\ [][C15_OwnFiles]_vars

\* Two runs for the same album overlapped, each with files in its own
\* directory.
C15_Witness ==
    \E r, s \in Runs :
        /\ r # s /\ query[r] = query[s]
        /\ pc[r] = "ffmpeg" /\ pc[s] = "ffmpeg"
        /\ tempDir[r] # tempDir[s]
        /\ \E f \in files : f.dir = tempDir[r]
        /\ \E f \in files : f.dir = tempDir[s]


\* C16: whenever no run is in progress, the ready row of an album carries
\* in zip_file_size the byte length of the object stored as "{albumId}.zip".
C16_SizeMatchesObject ==
    NoRunInProgress
    => \A x \in album_downloads :
          x.status = "ready"
          => \E o \in archives : /\ o.name = x.album_id \o ".zip"
                                 /\ o.body.length = x.zip_file_size


\* C17 (state): a run that ended with a 400, 404 or 500 has written no row,
\* and every row of the table has status ready.
C17_NoRowOnFailure ==
    /\ \A r \in Runs :
        ( Done(r) /\ (Answered(r, 400) \/ Answered(r, 404) \/ Answered(r, 500)) )
        => ~ Succeeded(r, "upsert")
    /\ \A x \in album_downloads : x.status = "ready"

\* C17 (step): the table changes only in the step in which the upsert of a
\* run returns with success, which writes this run's row with status ready
\* and sends no error response; every other step of a run, its 400, 404 and
\* 500 among them, leaves the table as it was.
C17_TableFrame ==
    \A r \in Runs :
        StepOf(r)
        => IF ReturnsOk(r, "upsert")
           THEN /\ (album_downloads' \ album_downloads) \subseteq { row[r] }
                /\ row[r].status = "ready"
                /\ Len(res'[r]) = 1 /\ res'[r][1].status = 200
           ELSE album_downloads' = album_downloads

\* C17: a run that fails leaves the status row as it was, and only ready
\* rows are written.
C17_FailureLeavesRow == [] C17_NoRowOnFailure /\ [][C17_TableFrame]_vars

\* After a run wrote the album's row, a second run for the album uploaded,
\* failed and answered 500: the table still holds the first run's row.
C17_Witness ==
    \E r, s \in Runs :
        /\ r # s /\ query[r] = query[s]
        /\ Done(s) /\ Answered(s, 200) /\ Succeeded(s, "upsert")
        /\ Done(r) /\ Answered(r, 500) /\ Succeeded(r, "upload")
        /\ album_downloads = { row[s] }
        /\ zipBuffer[r] # zipBuffer[s]


\* The four responses the handler is specified to send.
SpecifiedResponse(x) ==
    \/ x.status = 400 /\ x.body = [error |-> "Missing albumId"]
    \/ x.status = 404 /\ x.body = [error |-> "No tracks found for album"]
    \/ x.status = 500 /\ x.body = [error |-> "Failed to generate zip"]
    \/ x.status = 200 /\ x.body.downloadUrl # Undefined

\* C18 (state): a run sends nothing before it ends and exactly one response,
\* one of the four specified, when it ends.
C18_ExactlyOneResponse ==
    \A r \in Runs :
        IF Done(r) THEN Len(res[r]) = 1 /\ SpecifiedResponse(res[r][1])
                   ELSE res[r] = << >>

\* C18 (progress): a request that was received ends.
C18_Terminates == \A r \in Runs : (pc[r] # "idle") ~> Done(r)

\* C18: when every awaited call returns, every request ends with exactly one
\* response, which is the 400 for a missing albumId, the 404 for no tracks,
\* the 200 with a downloadUrl, or the 500.
C18_EveryRequestAnswered == [] C18_ExactlyOneResponse /\ C18_Terminates

====
